---- MODULE Spec2Model ----
(***************************************************************************)
(* Hash-based signatures of signature_benchmark: WOTS+ (wots.rs), the      *)
(* updatable Merkle signature scheme (merkle.rs) and its shallow/deep      *)
(* composition (sdmss.rs).                                                 *)
(*                                                                         *)
(* SHA-256 is idealised: a digest that is only compared is a term of the   *)
(* free algebra (two digests are equal iff they were computed from equal   *)
(* inputs); the one digest whose bytes are read, the bound message digest  *)
(* of cycles_for_msg, is a byte string read from a table H of digests (the *)
(* variable oracle), which holds one arbitrary row of digests, one per     *)
(* message, for every public key hash that has been hashed with a message. *)
(***************************************************************************)
EXTENDS Integers, Sequences, FiniteSets, TLC

VARIABLES
    oracle,     \* pk_hash -> [Msgs -> digest bytes]: Sha256(pk_hash || Sha256(msg))[..M]
    wots,       \* the Wots keypair under test
    wsig,       \* <<the WotsSignature handed to verify (possibly altered)>>, or <<>>
    wmsg,       \* the message wsig was made for
    waltered,   \* which field of wsig was altered after signing ("none" if none)
    wres,       \* <<the last WotsSignature::verify call: [msg, panicked, ok]>>, or <<>>
    merkle,     \* [kp: the UpdatableMerkleKeypair, updates: update() calls made on their own,
                \*  checked: the build aborts on integer overflow (debug) or wraps (release)]
    status,     \* "ok", or "panic" once a call on the keypair has aborted
    kept,       \* <<some signature issued before last>>, or <<>>
    last,       \* <<the latest signature issued>>, or <<>>: [sig, msg, abs, ctr, nth]
    keypair,    \* the SD-MSS Keypair
    sdlast,     \* <<the latest SD-MSS signature issued>>, or <<>>: [sig, msg]
    sdkept,     \* <<some SD-MSS signature issued before sdlast>>, or <<>>: [sig]
    sdcalls,    \* [n: sign calls that returned, zero: every call passed remote counters 0, 0,
                \*  acked: every call passed the shallow.ctr_next of that moment]
    lamport,    \* the Lamport OTP exchange: [p: Proofer, v: Verifier, pc: whose turn it is,
                \*  ch: <<the challenge in flight>>, otp: <<the password in flight>>,
                \*  challenges: every next_challenge value, results: every verify result]
    park,       \* the Park OTP exchange, with the same fields and, for the replies
                \* made so far, revealed: the x returned, committed: the x_next derived
                \* (over a lossy channel: replies, delivered, lost, inorder instead)
    calc        \* one call of a pure function: [fn, its arguments, out: <<result>> or <<>>]

wotsVars   == <<wots, wsig, wmsg, waltered, wres>>
merkleVars == <<merkle, kept, last>>
sdVars     == <<keypair, sdlast, sdkept, sdcalls>>
otpVars    == <<lamport, park, calc>>
vars       == <<oracle, wotsVars, merkleVars, sdVars, otpVars, status>>


(***************************************************************************)
(* Parameters.                                                             *)
(***************************************************************************)
W == 16
LOG2_W == 4
\* Message digest length in bytes (16 in the source; the model shortens it).
M == 2
L1 == (8 * M + LOG2_W - 1) \div LOG2_W
L2 == 3
L2_BYTES == (L2 * LOG2_W + 7) \div 8
L == L1 + L2

Pow2(n) == 2 ^ n

Msgs == {"hello", "world"}
\* Byte values the digests are drawn from.
ByteSamples == {60, 165}
Digests == [1..M -> ByteSamples]
Rows == [Msgs -> Digests]
\* Values that are no output of any hash of the model.
Garbage == {<<"garbage", 0>>}

(***************************************************************************)
(* wots.rs                                                                 *)
(***************************************************************************)
\* counter is a u32; every counter of the model is far below 2^32.
prf(seed, counter) == <<"prf", seed, counter>>

\* chain: c iterations of output = Sha256(key || (output XOR bitmask))[..N] with
\* (key, bitmask) = prf2(pk_seed, counter), for the consecutive counters
\* (chain << 8) + start, ... .  The nested digest is kept run-length encoded:
\* <<"chain", pk_seed, from, to, base>> is base after the iterations with the
\* counters from .. to-1 under pk_seed, so that equal terms are equal digests.
\* Faulty variant of chain: the counters do not take start into account.
chain_ignores_start(input, c, chainIdx, start, pk_seed) ==
    LET from == chainIdx * 256
    IN  IF c = 0 THEN input
        ELSE IF input[1] = "chain" /\ input[2] = pk_seed /\ input[4] = from
        THEN <<"chain", pk_seed, input[3], from + c, input[5]>>
        ELSE <<"chain", pk_seed, from, from + c, input>>

chain(input, c, chainIdx, start, pk_seed) ==
    LET from == chainIdx * 256 + start
    IN  IF c = 0 THEN input
        ELSE IF input[1] = "chain" /\ input[2] = pk_seed /\ input[4] = from
        THEN <<"chain", pk_seed, input[3], from + c, input[5]>>
        ELSE <<"chain", pk_seed, from, from + c, input>>

RECURSIVE base_w_loop(_, _, _, _, _, _)
base_w_loop(bytes, i, b, bi, bits, symbols) ==
    IF i = 0 THEN symbols
    ELSE LET sym   == b % Pow2(LOG2_W)
             b1    == b \div Pow2(LOG2_W)
             bits1 == bits - LOG2_W
             fill  == bits1 <= LOG2_W
             bits2 == IF fill THEN bits1 + 8 ELSE bits1
             more  == fill /\ bi > 1
             bi2   == IF more THEN bi - 1 ELSE bi
             b2    == IF more THEN b1 + bytes[bi2] * Pow2(bits2) ELSE b1
         IN  base_w_loop(bytes, i - 1, b2, bi2, bits2, <<sym>> \o symbols)

\* Faulty variant of base_w: the symbols are written from symbols[0] upwards.
base_w_upwards(bytes, len) ==
    LET symbols == base_w_loop(bytes, len, bytes[Len(bytes)], Len(bytes), 8, <<>>)
    IN  [i \in 1..len |-> symbols[len + 1 - i]]

\* bytes is a non-empty sequence of bytes (index 1 is the first byte).  The loop
\* writes symbols[len-1] down to symbols[0], so the vector grows at its front.
base_w(bytes, len) ==
    base_w_loop(bytes, len, bytes[Len(bytes)], Len(bytes), 8, <<>>)

RECURSIVE SumSeq(_)
SumSeq(s) == IF s = <<>> THEN 0 ELSE Head(s) + SumSeq(Tail(s))

\* u32::to_be_bytes
to_be_bytes(x) == [i \in 1..4 |-> (x \div Pow2(8 * (4 - i))) % 256]

\* Sha256(pk_hash || Sha256(msg))[..M], read from the table H of digests.
Digest(H, msg, pk_hash) == H[pk_hash][msg]

\* The L2 symbols that cycles_for_msg makes of the sum: shift, low bytes, base_w.
csum_symbols(csum0) ==
    LET csum  == csum0 * Pow2(8 - ((L2 * LOG2_W) % 8))
        csum_bytes == SubSeq(to_be_bytes(csum), 4 - L2_BYTES + 1, 4)
    IN  base_w(csum_bytes, L2)

checksum(msgCycles) == csum_symbols(SumSeq([i \in 1..L1 |-> W - 1 - msgCycles[i]]))

cycles_of(hash_bytes) ==
    LET msgCycles == base_w(hash_bytes, L1)
    IN  msgCycles \o checksum(msgCycles)

cycles_for_msg(H, msg, pk_hash) == cycles_of(Digest(H, msg, pk_hash))

\* Sha256(pk_seed || public_0 || ... )[..N]
pk_digest(pk_seed, publics) == <<"pkh", pk_seed, publics>>

from_seed(sk_seed) ==
    LET pk_seed == prf(sk_seed, L)
        publics == [i \in 1..L |-> chain(prf(sk_seed, i - 1), W - 1, i - 1, 0, pk_seed)]
    IN  [pk_hash |-> pk_digest(pk_seed, publics), pk_seed |-> pk_seed, sk_seed |-> sk_seed]

sign_chains(cycles, sk_seed, pk_seed) ==
    [i \in 1..L |-> chain(prf(sk_seed, i - 1), cycles[i], i - 1, 0, pk_seed)]

\* Wots::sign
wots_sign(H, w, msg) ==
    [pk_hash   |-> w.pk_hash,
     pk_seed   |-> w.pk_seed,
     signature |-> sign_chains(cycles_for_msg(H, msg, w.pk_hash), w.sk_seed, w.pk_seed)]

sign_once(H, msg, sk_seed, pk_hash) ==
    LET pk_seed == prf(sk_seed, L)
    IN  [pk_hash   |-> pk_hash,
         pk_seed   |-> pk_seed,
         signature |-> sign_chains(cycles_for_msg(H, msg, pk_hash), sk_seed, pk_seed)]

\* WotsSignature::verify aborts on self.signature[i] when the vector is short.
verify_panics(sig) == Len(sig.signature) < L

\* Faulty variant of verify_chain: the chain is resumed at counter 0.
verify_chain_from_zero(sig, cyc, i) ==
    chain(sig.signature[i], W - 1 - cyc, i - 1, 0, sig.pk_seed)

verify_chain(sig, cyc, i) == chain(sig.signature[i], W - 1 - cyc, i - 1, cyc, sig.pk_seed)

\* WotsSignature::verify, for a signature on which it does not abort.
wots_verify(H, sig, msg) ==
    LET cycles  == cycles_for_msg(H, msg, sig.pk_hash)
        publics == [i \in 1..L |-> verify_chain(sig, cycles[i], i)]
    IN  pk_digest(sig.pk_seed, publics) = sig.pk_hash

(***************************************************************************)
(* merkle.rs                                                               *)
(***************************************************************************)
\* Sha256(in1 || in2)[..N]
hash2(in1, in2) == <<"hash2", in1, in2>>

\* The N-byte buffer whose first four bytes are index.to_be_bytes().
index_bytes(index) == <<"be32", index>>

calculate_leaf(seed, index) == from_seed(hash2(seed, index_bytes(index))).pk_hash

\* leaves.len().count_ones() == 1
RECURSIVE count_ones(_)
count_ones(n) == IF n = 0 THEN 0 ELSE (n % 2) + count_ones(n \div 2)

root_panics(leaves) == count_ones(Len(leaves)) # 1

\* Faulty variant of fold_layers: each pair is hashed right node first.
RECURSIVE fold_layers_swapped(_, _, _)
fold_layers_swapped(tmp, caching, cache) ==
    IF Len(tmp) <= 1 THEN [root |-> tmp[1], cache |-> cache]
    ELSE fold_layers_swapped(
             [j \in 1..(Len(tmp) \div 2) |-> hash2(tmp[2 * j], tmp[2 * j - 1])],
             caching,
             IF Len(tmp) = Pow2(caching) THEN tmp ELSE cache)

RECURSIVE fold_layers(_, _, _)
fold_layers(tmp, caching, cache) ==
    IF Len(tmp) <= 1 THEN [root |-> tmp[1], cache |-> cache]
    ELSE fold_layers([j \in 1..(Len(tmp) \div 2) |-> hash2(tmp[2 * j - 1], tmp[2 * j])],
                     caching,
                     IF Len(tmp) = Pow2(caching) THEN tmp ELSE cache)

\* For a number of leaves that is a power of two.
calculate_root_and_cache(leaves, caching) == fold_layers(leaves, caching, <<>>)

\* from_sk aborts: only calculate_root_and_cache can, on the number of leaves.
from_sk_panics(seed, h, c, ssc) ==
    root_panics([i \in 1..Pow2(h) |-> calculate_leaf(seed, i - 1)])

from_sk(seed, h, c, ssc) ==
    LET leaves == [i \in 1..Pow2(h) |-> calculate_leaf(seed, i - 1)]
        rc     == calculate_root_and_cache(leaves, c)
    IN  [height |-> h, caching |-> c,
         pk |-> rc.root, pk_next |-> rc.root,
         sk_seed |-> seed,
         ctr |-> 0, ctr_next |-> 0,
         cache |-> rc.cache, cache_next |-> rc.cache,
         server_side_caching |-> ssc]

\* x ^ (1 << i) for x a multiple of 2^i
flip_bit(x, i) == IF (x \div Pow2(i)) % 2 = 0 THEN x + Pow2(i) ELSE x - Pow2(i)

\* Faulty variant of cached_range: the range of the node itself, not of its sibling.
cached_range_own(kp, index, i) ==
    LET i2     == i - (kp.height - kp.caching)
        index2 == index \div Pow2(i - i2)
        start  == index2 - (index2 % Pow2(i2))
    IN  [start |-> start, end |-> start + Pow2(i2)]

\* The cache range [start, end) that auth_path reads at layer i >= height - caching.
cached_range(kp, index, i) ==
    LET i2     == i - (kp.height - kp.caching)
        index2 == index \div Pow2(i - i2)
        start  == flip_bit(index2 - (index2 % Pow2(i2)), i2)
    IN  [start |-> start, end |-> start + Pow2(i2)]

\* i >= self.height - self.caching, in usize: for caching > height the
\* difference wraps to a number above every i.
cached_layer(kp, i) == kp.caching <= kp.height /\ i >= kp.height - kp.caching

\* self.height - self.caching overflows (the first round of the loop computes it).
auth_path_overflows(kp) == kp.caching > kp.height /\ kp.height >= 1

auth_path_leaves(kp, index, i) ==
    IF cached_layer(kp, i)
    THEN LET r == cached_range(kp, index, i)
         IN  SubSeq(kp.cache, r.start + 1, r.end)
    ELSE LET start == flip_bit(index - (index % Pow2(i)), i)
         IN  [l \in 1..Pow2(i) |-> calculate_leaf(kp.sk_seed, kp.ctr + start + (l - 1))]

\* The slice self.cache[start..end] is out of range at some layer.
auth_path_panics(kp, index) ==
    \E i \in 0..(kp.height - 1) :
        /\ cached_layer(kp, i)
        /\ cached_range(kp, index, i).end > Len(kp.cache)

auth_path(kp, index) ==
    [k \in 1..kp.height |->
        calculate_root_and_cache(auth_path_leaves(kp, index, k - 1), kp.caching).root]

update_panics(kp) == kp.caching = kp.height /\ Len(kp.cache_next) = 0

\* Faulty variant of update: for c = h the new leaf is pushed without dropping the first.
update_keeps_head(kp) ==
    LET shifted == IF kp.caching = kp.height
                   THEN Append(kp.cache_next,
                               calculate_leaf(kp.sk_seed, kp.ctr_next + Pow2(kp.height) - 1))
                   ELSE kp.cache_next
        leaves  == IF kp.caching = kp.height
                   THEN SubSeq(shifted, 1, Pow2(kp.height))
                   ELSE [l \in 1..Pow2(kp.height) |->
                            calculate_leaf(kp.sk_seed, kp.ctr_next + (l - 1))]
        rc      == calculate_root_and_cache(leaves, kp.caching)
    IN  [kp EXCEPT !.cache_next = IF kp.caching # kp.height THEN rc.cache ELSE leaves,
                   !.pk_next = rc.root]

\* The c < h branch of update: all 2^h leaves of the window at ctr_next, regenerated.
regenerate(kp) ==
    calculate_root_and_cache([l \in 1..Pow2(kp.height) |->
                                 calculate_leaf(kp.sk_seed, kp.ctr_next + (l - 1))],
                             kp.caching)

\* Faulty variant of update: the window of pk_next starts one leaf late.
update_off_by_one(kp) ==
    LET shifted == IF kp.caching = kp.height
                   THEN Append(Tail(kp.cache_next),
                               calculate_leaf(kp.sk_seed, kp.ctr_next + Pow2(kp.height)))
                   ELSE kp.cache_next
        leaves  == IF kp.caching = kp.height
                   THEN shifted
                   ELSE [l \in 1..Pow2(kp.height) |->
                            calculate_leaf(kp.sk_seed, kp.ctr_next + l)]
        rc      == calculate_root_and_cache(leaves, kp.caching)
    IN  [kp EXCEPT !.cache_next = IF kp.caching # kp.height THEN rc.cache ELSE shifted,
                   !.pk_next = rc.root]

\* UpdatableMerkleKeypair::update, when it does not abort
update(kp) ==
    LET shifted == IF kp.caching = kp.height
                   THEN Append(Tail(kp.cache_next),
                               calculate_leaf(kp.sk_seed, kp.ctr_next + Pow2(kp.height) - 1))
                   ELSE kp.cache_next
        leaves  == IF kp.caching = kp.height
                   THEN shifted
                   ELSE [l \in 1..Pow2(kp.height) |->
                            calculate_leaf(kp.sk_seed, kp.ctr_next + (l - 1))]
        rc      == calculate_root_and_cache(leaves, kp.caching)
    IN  [kp EXCEPT !.cache_next = IF kp.caching # kp.height THEN rc.cache ELSE shifted,
                   !.pk_next = rc.root]

\* Faulty variant of reconciliate: ctr stays behind, the window is never reopened.
reconciliate_keeps_ctr(kp) ==
    [kp EXCEPT !.cache = kp.cache_next, !.pk = kp.pk_next]

\* Faulty variant of reconciliate: the cache is not taken over.
reconciliate_keeps_cache(kp) ==
    [kp EXCEPT !.ctr = kp.ctr_next, !.pk = kp.pk_next]

reconciliate(kp) ==
    [kp EXCEPT !.cache = kp.cache_next, !.ctr = kp.ctr_next, !.pk = kp.pk_next]

\* Faulty variant of sign_pkh: the leaf is read from cache_next.
sign_pkh_next(kp) ==
    IF kp.caching = kp.height
    THEN kp.cache_next[kp.ctr_next - kp.ctr + 1]
    ELSE calculate_leaf(kp.sk_seed, kp.ctr_next)

\* The WOTS+ public key hash that sign puts into the signature.
sign_pkh(kp) ==
    IF kp.caching = kp.height
    THEN kp.cache[kp.ctr_next - kp.ctr + 1]
    ELSE calculate_leaf(kp.sk_seed, kp.ctr_next)

\* UpdatableMerkleKeypair::sign aborts: self.cache[..] or a slice of it is out of range.
sign_panics(kp) ==
    \/ kp.caching = kp.height /\ kp.ctr_next - kp.ctr >= Len(kp.cache)
    \/ ~kp.server_side_caching /\ auth_path_panics(kp, kp.ctr_next - kp.ctr)

\* UpdatableMerkleKeypair::sign computes the auth path with an overflowing subtraction.
sign_overflows(kp) == ~kp.server_side_caching /\ auth_path_overflows(kp)

\* The MerkleSignature that sign returns.
sign_signature(H, kp, input) ==
    LET seed == hash2(kp.sk_seed, index_bytes(kp.ctr_next))
    IN  [index     |-> kp.ctr_next - kp.ctr,
         wots_sig  |-> sign_once(H, input, seed, sign_pkh(kp)),
         auth_path |-> IF kp.server_side_caching THEN <<>>
                       ELSE auth_path(kp, kp.ctr_next - kp.ctr)]

\* Faulty variant of sign_keypair: ctr_next is not advanced.
sign_keypair_stale(kp) == update(kp)

\* The keypair after sign.
sign_keypair(kp) == update([kp EXCEPT !.ctr_next = kp.ctr_next + 1])

RECURSIVE fold_path(_, _, _, _)
fold_path(root, auth, index, i) ==
    IF i > Len(auth) THEN root
    ELSE fold_path(IF (index \div Pow2(i - 1)) % 2 = 0
                   THEN hash2(root, auth[i])
                   ELSE hash2(auth[i], root),
                   auth, index, i + 1)

\* MerkleSignature::verify, for a signature on which it does not abort.
merkle_verify(H, sig, input, pk) ==
    /\ wots_verify(H, sig.wots_sig, input)
    /\ fold_path(sig.wots_sig.pk_hash, sig.auth_path, sig.index, 1) = pk

(***************************************************************************)
(* sdmss.rs                                                                *)
(***************************************************************************)
\* Heights of the shallow and the deep tree (2 and 7 in the source; the model
\* shortens them) and the caching level of the deep tree (the source has C = D).
S == 1
D == 2
C == D

\* Sha256(sk || label)[..N]
\* Faulty variant of labelled_seed: the label is not hashed in.
labelled_seed_unlabelled(sk, label) == <<"sha", sk, "">>

labelled_seed(sk, label) == <<"sha", sk, label>>

sd_from_sk(sk) ==
    [sk_seed |-> sk,
     shallow |-> from_sk(labelled_seed(sk, "shallow"), S, S, TRUE),
     deep    |-> from_sk(labelled_seed(sk, "deep"), D, C, FALSE)]

\* Faulty variant of sd_reconciled: an older remote counter acknowledges as well.
sd_reconciled_older(kp, remote_shallow_ctr, remote_deep_ctr) ==
    [kp EXCEPT !.shallow = IF remote_shallow_ctr <= kp.shallow.ctr_next
                           THEN reconciliate(kp.shallow) ELSE kp.shallow,
               !.deep    = IF remote_deep_ctr <= kp.deep.ctr_next
                           THEN reconciliate(kp.deep) ELSE kp.deep]

\* The two reconciliations that open Keypair::sign.
sd_reconciled(kp, remote_shallow_ctr, remote_deep_ctr) ==
    [kp EXCEPT !.shallow = IF remote_shallow_ctr = kp.shallow.ctr_next
                           THEN reconciliate(kp.shallow) ELSE kp.shallow,
               !.deep    = IF remote_deep_ctr = kp.deep.ctr_next
                           THEN reconciliate(kp.deep) ELSE kp.deep]

shallow_kps_used(kp) == kp.shallow.ctr_next - kp.shallow.ctr

\* Faulty variant of sd_branch: the shallow tree is used once too often.
sd_branch_late(kp) ==
    IF shallow_kps_used(kp) > Pow2(kp.shallow.height) THEN "unreachable"
    ELSE IF shallow_kps_used(kp) <= Pow2(kp.shallow.height) THEN "shallow"
    ELSE "deep"

\* "shallow", "deep" or "unreachable": the branch Keypair::sign takes after reconciling.
sd_branch(kp) ==
    IF shallow_kps_used(kp) > Pow2(kp.shallow.height) THEN "unreachable"
    ELSE IF shallow_kps_used(kp) < Pow2(kp.shallow.height) THEN "shallow"
    ELSE "deep"

\* Faulty variant of sd_tree: the deep branch signs with the shallow tree too.
sd_tree_shallow(kp) == kp.shallow

\* The tree that signs, for a keypair that has been reconciled.
sd_tree(kp) == IF sd_branch(kp) = "shallow" THEN kp.shallow ELSE kp.deep

sd_sign_panics(kp) == sd_branch(kp) = "unreachable" \/ sign_panics(sd_tree(kp))

\* The keypair after Keypair::sign, for a keypair that has been reconciled.
sd_sign_keypair(kp) ==
    IF sd_branch(kp) = "shallow"
    THEN [kp EXCEPT !.shallow = sign_keypair(kp.shallow)]
    ELSE [kp EXCEPT !.deep = sign_keypair(kp.deep)]

\* Faulty variant of sd_sign_signature: the counters are read before the tree signs.
sd_sign_signature_stale(H, kp, input) ==
    [deep            |-> sd_branch(kp) = "deep",
     new_shallow_ctr |-> kp.shallow.ctr_next,
     new_deep_ctr    |-> kp.deep.ctr_next,
     merkle_sig      |-> sign_signature(H, sd_tree(kp), input)]

\* Faulty variant of sd_sign_signature: the deep flag is inverted.
sd_sign_signature_flipped(H, kp, input) ==
    LET after == sd_sign_keypair(kp)
    IN  [deep            |-> sd_branch(kp) # "deep",
         new_shallow_ctr |-> after.shallow.ctr_next,
         new_deep_ctr    |-> after.deep.ctr_next,
         merkle_sig      |-> sign_signature(H, sd_tree(kp), input)]

\* The Signature that Keypair::sign returns, for a keypair that has been reconciled.
sd_sign_signature(H, kp, input) ==
    LET after == sd_sign_keypair(kp)
    IN  [deep            |-> sd_branch(kp) = "deep",
         new_shallow_ctr |-> after.shallow.ctr_next,
         new_deep_ctr    |-> after.deep.ctr_next,
         merkle_sig      |-> sign_signature(H, sd_tree(kp), input)]

\* Signature::verify
sd_verify(H, sig, input, shallow_pk, deep_pk) ==
    IF sig.deep
    THEN merkle_verify(H, sig.merkle_sig, input, deep_pk)
    ELSE merkle_verify(H, sig.merkle_sig, input, shallow_pk)

(***************************************************************************)
(* Bounds of the model.                                                    *)
(***************************************************************************)
\* Largest tree height of an UpdatableMerkleKeypair.
MaxH == 2
\* sign is not called once ctr_next has reached MaxCtr.
MaxCtr == 5
\* Number of update() calls made from outside sign.
MaxUpdates == 1
\* Number of SD-MSS sign calls in a run.
MaxSdCalls == 12

\* The digest rows drawn for the leaves of a Merkle tree.
MerkleRows == {[m \in Msgs |-> [k \in 1..M |-> IF m = "hello" THEN 60 ELSE 165]]}

\* The table H with the row of pk_hash added, unless it has one.
WithRow(H, pk_hash, row) ==
    IF pk_hash \in DOMAIN H THEN H ELSE (pk_hash :> row) @@ H

\* The table H cut down to the pk_hash of the given issued signatures.
RowsOf(H, issued) ==
    [p \in {issued[k][1].sig.wots_sig.pk_hash :
                k \in {j \in 1..Len(issued) : issued[j] # <<>>}} |-> H[p]]

WotsIdle == wots = <<>> /\ wsig = <<>> /\ wmsg = "" /\ waltered = "none" /\ wres = <<>>
MerkleIdle == merkle = <<>> /\ kept = <<>> /\ last = <<>>
SdIdle == keypair = <<>> /\ sdlast = <<>> /\ sdkept = <<>> /\ sdcalls = <<>>
CalcIdle == calc = <<>>
OtpIdle == lamport = <<>> /\ park = <<>> /\ CalcIdle

(***************************************************************************)
(* The UpdatableMerkleKeypair as a state machine: from_sk, then any        *)
(* sequence of sign and reconciliate (and update) calls.                   *)
(***************************************************************************)
Init ==
    /\ \E h \in 0..MaxH : \E c \in 0..h : \E ssc \in BOOLEAN :
           merkle = [kp |-> from_sk(<<"seed", 0>>, h, c, ssc), updates |-> 0,
                     checked |-> TRUE]
    /\ kept = <<>> /\ last = <<>>
    /\ status = "ok"
    /\ oracle = <<>>
    /\ WotsIdle /\ SdIdle /\ OtpIdle

\* sign(input); an aborted call changes nothing and ends the run.
Sign(input) ==
    /\ status = "ok"
    /\ merkle.kp.ctr_next < MaxCtr
    /\ IF sign_panics(merkle.kp) \/ (merkle.checked /\ sign_overflows(merkle.kp))
       THEN /\ status' = "panic"
            /\ UNCHANGED <<merkle, kept, last, oracle>>
       ELSE \E row \in MerkleRows :
              LET H   == WithRow(oracle, sign_pkh(merkle.kp), row)
                  new == [sig |-> sign_signature(H, merkle.kp, input),
                          msg |-> input,
                          abs |-> merkle.kp.ctr_next,
                          ctr |-> merkle.kp.ctr,
                          nth |-> IF last = <<>> THEN 0 ELSE last[1].nth + 1]
              IN  /\ merkle' = [merkle EXCEPT !.kp = sign_keypair(merkle.kp)]
                  /\ last' = <<new>>
                  /\ kept' \in {kept, last}
                  /\ oracle' = RowsOf(H, <<kept', last'>>)
                  /\ status' = status
    /\ UNCHANGED <<wotsVars, sdVars, otpVars>>

Reconciliate ==
    /\ status = "ok"
    /\ merkle' = [merkle EXCEPT !.kp = reconciliate(merkle.kp)]
    /\ UNCHANGED <<kept, last, oracle, status, wotsVars, sdVars, otpVars>>

\* update() called on its own.
Update ==
    /\ status = "ok"
    /\ merkle.updates < MaxUpdates
    /\ IF update_panics(merkle.kp)
       THEN status' = "panic" /\ UNCHANGED merkle
       ELSE /\ merkle' = [merkle EXCEPT !.kp = update(merkle.kp),
                                         !.updates = merkle.updates + 1]
            /\ status' = status
    /\ UNCHANGED <<kept, last, oracle, wotsVars, sdVars, otpVars>>

Next == (\E input \in Msgs : Sign(input)) \/ Reconciliate

\* from_sk called with caching above height, in either build.
InitBadCaching ==
    /\ \E h \in 0..MaxH : \E c \in (h + 1)..(MaxH + 1) : \E ssc \in BOOLEAN :
         \E checked \in BOOLEAN :
           IF from_sk_panics(<<"seed", 0>>, h, c, ssc)
           THEN merkle = <<>> /\ status = "panic"
           ELSE /\ merkle = [kp |-> from_sk(<<"seed", 0>>, h, c, ssc), updates |-> 0,
                             checked |-> checked]
                /\ status = "ok"
    /\ kept = <<>> /\ last = <<>>
    /\ oracle = <<>>
    /\ WotsIdle /\ SdIdle /\ OtpIdle

SpecBadCaching == InitBadCaching /\ [][Next]_vars

Spec == Init /\ [][Next]_vars

NextU == (\E input \in Msgs : Sign(input)) \/ Reconciliate \/ Update

SpecU == Init /\ [][NextU]_vars

(***************************************************************************)
(* The SD-MSS Keypair as a state machine: from_sk, then sign calls with    *)
(* arbitrary remote counters.                                              *)
(***************************************************************************)
InitSd ==
    /\ keypair = sd_from_sk(<<"seed", 0>>)
    /\ sdlast = <<>> /\ sdkept = <<>>
    /\ sdcalls = [n |-> 0, zero |-> TRUE, acked |-> TRUE]
    /\ status = "ok"
    /\ oracle = <<>>
    /\ WotsIdle /\ MerkleIdle /\ OtpIdle

\* Keypair::sign; the reconciliations are made before the call can abort.
SdSign(input, remote_shallow_ctr, remote_deep_ctr) ==
    LET rec == sd_reconciled(keypair, remote_shallow_ctr, remote_deep_ctr)
    IN  /\ status = "ok"
        /\ sdcalls.n < MaxSdCalls
        /\ IF sd_sign_panics(rec)
           THEN /\ status' = "panic"
                /\ keypair' = rec
                /\ sdcalls' = [sdcalls EXCEPT !.acked = /\ @
                                                        /\ remote_shallow_ctr = keypair.shallow.ctr_next]
                /\ UNCHANGED <<sdlast, sdkept, oracle>>
           ELSE \E row \in MerkleRows :
                  LET H == WithRow(<<>>, sign_pkh(sd_tree(rec)), row)
                  IN  /\ keypair' = sd_sign_keypair(rec)
                      /\ sdlast' = <<[sig |-> sd_sign_signature(H, rec, input),
                                      msg |-> input]>>
                      /\ sdkept' \in {sdkept} \cup {<<[sig |-> sdlast[k].sig]>> : k \in 1..Len(sdlast)}
                      /\ sdcalls' = [n     |-> sdcalls.n + 1,
                                     zero  |-> /\ sdcalls.zero
                                               /\ remote_shallow_ctr = 0
                                               /\ remote_deep_ctr = 0,
                                     acked |-> /\ sdcalls.acked
                                               /\ remote_shallow_ctr = keypair.shallow.ctr_next]
                      /\ oracle' = H
                      /\ status' = status
        /\ UNCHANGED <<wotsVars, merkleVars, otpVars>>

\* The remote counters a caller passes: 0 or the acknowledging value.  The code
\* only tests a remote counter for equality with ctr_next, so 0 stands for every
\* value that differs from a ctr_next above 0.
RemoteCtrs(tree) == {0, tree.ctr_next}

\* The messages signed with the SD-MSS keypair.
SdMsgs == {"hello"}

NextSd ==
    \E input \in SdMsgs :
        \E rsc \in RemoteCtrs(keypair.shallow) : \E rdc \in RemoteCtrs(keypair.deep) :
            SdSign(input, rsc, rdc)

SpecSd == InitSd /\ [][NextSd]_vars

(***************************************************************************)
(* WOTS+ on its own: from_seed, sign, a signature altered on its way to    *)
(* the verifier, verify.                                                   *)
(***************************************************************************)
InitWots ==
    /\ wots = from_seed(<<"seed", 0>>)
    /\ \E row \in Rows : oracle = (wots.pk_hash :> row)
    /\ wsig = <<>> /\ wmsg = "" /\ waltered = "none" /\ wres = <<>>
    /\ status = "ok"
    /\ MerkleIdle /\ SdIdle /\ OtpIdle

WotsSign(msg) ==
    /\ wsig = <<>>
    /\ wsig' = <<wots_sign(oracle, wots, msg)>>
    /\ wmsg' = msg
    /\ UNCHANGED <<wots, waltered, wres, oracle, status, merkleVars, sdVars, otpVars>>

\* What an element of the signature vector can be replaced by: no digest at all,
\* another element of the vector, or the element hashed once more.
ElementsFor(sig, i) ==
    (Garbage \cup {sig.signature[j] : j \in 1..Len(sig.signature)}
             \cup {chain(sig.signature[i], 1, i - 1, W - 2, sig.pk_seed)})
        \ {sig.signature[i]}

AlterSignature ==
    /\ wsig # <<>> /\ waltered = "none" /\ wres = <<>>
    /\ \E i \in 1..Len(wsig[1].signature) : \E v \in ElementsFor(wsig[1], i) :
           wsig' = <<[wsig[1] EXCEPT !.signature[i] = v]>>
    /\ waltered' = "signature"
    /\ UNCHANGED <<wots, wmsg, wres, oracle, status, merkleVars, sdVars, otpVars>>

\* pk_hash replaced by the public key hash of another keypair or by no digest.
AlterPkHash ==
    /\ wsig # <<>> /\ waltered = "none" /\ wres = <<>>
    /\ \E v \in Garbage \cup {from_seed(<<"seed", 1>>).pk_hash} : \E row \in Rows :
           /\ wsig' = <<[wsig[1] EXCEPT !.pk_hash = v]>>
           /\ oracle' = WithRow(oracle, v, row)
    /\ waltered' = "pk_hash"
    /\ UNCHANGED <<wots, wmsg, wres, status, merkleVars, sdVars, otpVars>>

AlterPkSeed ==
    /\ wsig # <<>> /\ waltered = "none" /\ wres = <<>>
    /\ \E v \in Garbage \cup {from_seed(<<"seed", 1>>).pk_seed} :
           wsig' = <<[wsig[1] EXCEPT !.pk_seed = v]>>
    /\ waltered' = "pk_seed"
    /\ UNCHANGED <<wots, wmsg, wres, oracle, status, merkleVars, sdVars, otpVars>>

\* The signature vector handed to verify is one element short or one element
\* long (the public field signature is a Vec of any length).
ResizeSignature ==
    /\ wsig # <<>> /\ waltered = "none" /\ wres = <<>>
    /\ \/ wsig' = <<[wsig[1] EXCEPT !.signature = SubSeq(@, 1, Len(@) - 1)]>>
       \/ \E v \in Garbage \cup {wsig[1].signature[1]} :
              wsig' = <<[wsig[1] EXCEPT !.signature = Append(@, v)]>>
    /\ waltered' = "length"
    /\ UNCHANGED <<wots, wmsg, wres, oracle, status, merkleVars, sdVars, otpVars>>

WotsVerify(msg) ==
    /\ wsig # <<>>
    /\ wres' = <<[msg      |-> msg,
                  panicked |-> verify_panics(wsig[1]),
                  ok       |-> ~verify_panics(wsig[1]) /\ wots_verify(oracle, wsig[1], msg)]>>
    /\ UNCHANGED <<wots, wsig, wmsg, waltered, oracle, status, merkleVars, sdVars, otpVars>>

NextWots ==
    \/ \E msg \in Msgs : WotsSign(msg)
    \/ AlterSignature
    \/ AlterPkHash
    \/ AlterPkSeed
    \/ ResizeSignature
    \/ \E msg \in Msgs : WotsVerify(msg)

SpecWots == InitWots /\ [][NextWots]_vars

(***************************************************************************)
(* The functions of wots.rs and merkle.rs called on their own: chain,      *)
(* base_w, the checksum of cycles_for_msg and calculate_root_and_cache.    *)
(* A behaviour draws one call and makes it.                                *)
(***************************************************************************)
\* Largest chain index of a chain call.
MaxChainIdx == 1
\* Largest number of bytes handed to base_w.
MaxBytes == 2
\* Largest number of leaves handed to calculate_root_and_cache.
MaxLeaves == 4

\* The bytes of the strings of two and more bytes.
ByteValues == {0, 1, 15, 16, 60, 165, 255}
\* The symbols the message part of a checksum call is made of.
SymbolValues == {0, 7, 15}
\* The nodes a list of leaves is made of: [42; N] and [31; N].
LeafValues == {<<"leaf", 42>>, <<"leaf", 31>>}

\* (8 + LOG2_W - 1) / LOG2_W symbols for each byte.
symbols_per_byte == (8 + LOG2_W - 1) \div LOG2_W

ChainCalls ==
    {[fn |-> "chain", input |-> x, k |-> k, s |-> sd, a |-> ab[1], b |-> ab[2],
      out |-> <<>>] :
        x \in {<<"zero", 0>>, prf(<<"seed", 0>>, 0)},
        k \in 0..MaxChainIdx,
        sd \in {<<"zero", 0>>, prf(<<"seed", 0>>, L)},
        ab \in {p \in (0..(W - 1)) \X (0..(W - 1)) : p[1] + p[2] <= W - 1}}

BaseWCalls ==
    {[fn |-> "base_w", bytes |-> bs, len |-> Len(bs) * symbols_per_byte, out |-> <<>>] :
        bs \in [1..1 -> 0..255] \cup UNION {[1..n -> ByteValues] : n \in 2..MaxBytes}}

ChecksumCalls ==
    {[fn |-> "checksum", symbols |-> d, out |-> <<>>] : d \in [1..L1 -> SymbolValues]}

RootCalls ==
    {[fn |-> "root", leaves |-> ls, caching |-> c, out |-> <<>>] :
        ls \in UNION {[1..n -> LeafValues] : n \in 0..MaxLeaves}, c \in 0..1}

InitCalc ==
    /\ \/ calc \in ChainCalls
       \/ calc \in BaseWCalls
       \/ calc \in ChecksumCalls
       \/ calc \in RootCalls
    /\ lamport = <<>> /\ park = <<>>
    /\ status = "ok"
    /\ oracle = <<>>
    /\ WotsIdle /\ MerkleIdle /\ SdIdle

otherThanCalc == <<lamport, park, oracle, status, wotsVars, merkleVars, sdVars>>

\* tests::hash_chain_test: a then b rounds, a + b rounds at once, and no round.
CallChain ==
    /\ calc.fn = "chain" /\ calc.out = <<>>
    /\ LET mid  == chain(calc.input, calc.a, calc.k, 0, calc.s)
           end1 == chain(mid, calc.b, calc.k, calc.a, calc.s)
           end2 == chain(calc.input, calc.a + calc.b, calc.k, 0, calc.s)
           end3 == chain(end2, 0, calc.k, calc.b, calc.s)
           none == chain(calc.input, 0, calc.k, calc.a, calc.s)
       IN  calc' = [calc EXCEPT !.out = <<[mid |-> mid, end1 |-> end1, end2 |-> end2,
                                          end3 |-> end3, none |-> none]>>]
    /\ UNCHANGED otherThanCalc

CallBaseW ==
    /\ calc.fn = "base_w" /\ calc.out = <<>>
    /\ calc' = [calc EXCEPT !.out = <<base_w(calc.bytes, calc.len)>>]
    /\ UNCHANGED otherThanCalc

CallChecksum ==
    /\ calc.fn = "checksum" /\ calc.out = <<>>
    /\ calc' = [calc EXCEPT !.out = <<checksum(calc.symbols)>>]
    /\ UNCHANGED otherThanCalc

CallRoot ==
    /\ calc.fn = "root" /\ calc.out = <<>>
    /\ calc' = [calc EXCEPT !.out =
                   IF root_panics(calc.leaves)
                   THEN <<[panicked |-> TRUE]>>
                   ELSE LET rc == calculate_root_and_cache(calc.leaves, calc.caching)
                        IN  <<[panicked |-> FALSE, root |-> rc.root, cache |-> rc.cache]>>]
    /\ UNCHANGED otherThanCalc

NextCalc == CallChain \/ CallBaseW \/ CallChecksum \/ CallRoot

SpecCalc == InitCalc /\ [][NextCalc]_vars

(***************************************************************************)
(* lamport_otp.rs: the Lamport one-time password scheme.                   *)
(***************************************************************************)
\* Largest chain length n of a Proofer.
MaxN == 5

\* Sha256::digest of a byte string, as a term over its input.
Sha256(x) == <<"sha256", x>>

\* for _ in 0..x { output = Sha256(output) }: no round is made for x <= 0.
RECURSIVE hash_x_times(_, _)
hash_x_times(input, x) ==
    IF x <= 0 THEN input ELSE hash_x_times(Sha256(input), x - 1)

\* Proofer::new(n), with the secret that thread_rng drew.
lamport_proofer_new(n, secret) == [n |-> n, last_ch |-> n, secret |-> secret]

lamport_pk(p) == hash_x_times(p.secret, p.n)

\* Proofer::reply: the Proofer after the call and the password returned.
lamport_reply(p, ch) ==
    [p |-> [p EXCEPT !.last_ch = ch], otp |-> hash_x_times(p.secret, ch)]

lamport_verifier_new(n, pk) == [last_ch |-> n, last_otp |-> pk]

\* Faulty variant of lamport_next_challenge: returns the counter, then decrements.
lamport_next_challenge_post(v) ==
    [v |-> [v EXCEPT !.last_ch = @ - 1], ch |-> v.last_ch]

\* Faulty variant of lamport_next_challenge: the counter is not stored back.
lamport_next_challenge_stuck(v) == [v |-> v, ch |-> v.last_ch - 1]

\* Verifier::next_challenge: the Verifier after the call and the value returned.
lamport_next_challenge(v) ==
    [v |-> [v EXCEPT !.last_ch = @ - 1], ch |-> v.last_ch - 1]

\* Faulty variant of lamport_verify: a password further down the chain is
\* accepted as well, which makes up for skipped challenges.
lamport_verify_catches_up(v, otp) ==
    IF \E k \in 1..(MaxN + 1) : hash_x_times(otp, k) = v.last_otp
    THEN [v |-> [v EXCEPT !.last_otp = otp], ok |-> TRUE]
    ELSE [v |-> v, ok |-> FALSE]

\* Faulty variant of lamport_verify: last_otp is replaced on reject as well.
lamport_verify_always_stores(v, otp) ==
    [v |-> [v EXCEPT !.last_otp = otp], ok |-> Sha256(otp) = v.last_otp]

\* Faulty variant of lamport_verify: last_otp is not replaced on accept.
lamport_verify_keeps_otp(v, otp) == [v |-> v, ok |-> Sha256(otp) = v.last_otp]

\* Verifier::verify: the Verifier after the call and the value returned.
lamport_verify(v, otp) ==
    IF Sha256(otp) # v.last_otp
    THEN [v |-> v, ok |-> FALSE]
    ELSE [v |-> [v EXCEPT !.last_otp = otp], ok |-> TRUE]

\* Number of next_challenge calls in a run.
MaxChallenges == 7
\* Number of verify calls in a run where passwords are replayed.
MaxVerifies == 6

\* The challenge values a Proofer is asked to answer when they come from anywhere.
AnyChallenges == (0 - 1)..(MaxN + 1)

otherThanLamport == <<park, calc, oracle, status, wotsVars, merkleVars, sdVars>>

\* tests::full_chain up to the loop: Proofer::new(n), Verifier::new(p.n, p.pk()).
LamportFresh(pc) ==
    /\ \E n \in 1..MaxN :
         LET p == lamport_proofer_new(n, <<"secret", 0>>)
         IN  lamport = [p |-> p, v |-> lamport_verifier_new(p.n, lamport_pk(p)),
                        pc |-> pc, ch |-> <<>>, otp |-> <<>>,
                        challenges |-> <<>>, results |-> <<>>]
    /\ park = <<>>
    /\ status = "ok"
    /\ oracle = <<>>
    /\ WotsIdle /\ MerkleIdle /\ SdIdle /\ CalcIdle

\* let ch = v.next_challenge();
IssueChallenge(to) ==
    /\ Len(lamport.challenges) < MaxChallenges
    /\ LET r == lamport_next_challenge(lamport.v)
       IN  lamport' = [lamport EXCEPT !.v = r.v, !.ch = <<r.ch>>,
                                      !.challenges = Append(@, r.ch), !.pc = to]
    /\ UNCHANGED otherThanLamport

\* let pwd = p.reply(ch);
AnswerChallenge(ch, to) ==
    /\ LET r == lamport_reply(lamport.p, ch)
       IN  lamport' = [lamport EXCEPT !.p = r.p, !.otp = <<r.otp>>, !.pc = to]
    /\ UNCHANGED otherThanLamport

\* v.verify(pwd)
CheckPassword(to) ==
    /\ LET r == lamport_verify(lamport.v, lamport.otp[1])
       IN  lamport' = [lamport EXCEPT !.v = r.v, !.results = Append(@, r.ok), !.pc = to]
    /\ UNCHANGED otherThanLamport

(***************************************************************************)
(* The exchange of tests::full_chain, one call at a time, continued past   *)
(* the n-th round.                                                         *)
(***************************************************************************)
InitLamport == LamportFresh("challenge")

LamportChallenge == lamport.pc = "challenge" /\ IssueChallenge("reply")

LamportReply == lamport.pc = "reply" /\ AnswerChallenge(lamport.ch[1], "verify")

LamportVerify == lamport.pc = "verify" /\ CheckPassword("challenge")

NextLamport == LamportChallenge \/ LamportReply \/ LamportVerify

SpecLamport == InitLamport /\ [][NextLamport]_vars

(***************************************************************************)
(* The same Proofer and Verifier with the calls in any order: the Proofer  *)
(* answers any challenge value, the Verifier is handed the latest reply    *)
(* any number of times.                                                    *)
(***************************************************************************)
InitLamportAny == LamportFresh("any")

AnyChallenge == lamport.pc = "any" /\ IssueChallenge("any")

AnyReply == lamport.pc = "any" /\ \E ch \in AnyChallenges : AnswerChallenge(ch, "any")

AnyVerify ==
    /\ lamport.pc = "any"
    /\ lamport.otp # <<>>
    /\ Len(lamport.results) < MaxVerifies
    /\ CheckPassword("any")

NextLamportAny == AnyChallenge \/ AnyReply \/ AnyVerify

SpecLamportAny == InitLamportAny /\ [][NextLamportAny]_vars

(***************************************************************************)
(* park_otp.rs: the Park one-time password scheme.                         *)
(***************************************************************************)
\* for _ in 0..n { output = Sha256(output) }
RECURSIVE hash_n_times(_, _)
hash_n_times(input, n) ==
    IF n <= 0 THEN input ELSE hash_n_times(Sha256(input), n - 1)

\* Sha256 over x followed by y.
calculate_z(x, y) == Sha256(<<"cat", x, y>>)

\* Proofer::derive_x: Sha256(Sha256(seed || i.to_be_bytes())).
derive_x(p, i) == Sha256(Sha256(<<"cat", p.seed, <<"be32", i>>>>))

\* Proofer::new(), with the seed that thread_rng drew; <<"zero", 0>> is [0u8; N].
park_proofer_new(seed) ==
    LET p == [seed |-> seed, last_ch |-> 0, current_x |-> <<"zero", 0>>,
              next_x |-> <<"zero", 0>>]
    IN  [p EXCEPT !.current_x = derive_x(p, 1), !.next_x = derive_x(p, 2)]

\* assert_eq!(self.last_ch, 0) fails.
park_pk_panics(p) == p.last_ch # 0

\* Proofer::pk: the pair (y0, z0).
park_pk(p) ==
    <<hash_n_times(p.current_x, 1), calculate_z(p.current_x, hash_n_times(p.next_x, 1))>>

\* Faulty variant of park_reply: the next x is derived for ch + 1.
park_reply_lagging(p, ch) ==
    LET moved == [p EXCEPT !.last_ch = ch, !.current_x = p.next_x,
                           !.next_x = derive_x(p, ch + 1)]
    IN  [p |-> moved,
         otp |-> <<p.current_x, hash_n_times(p.next_x, 1),
                   calculate_z(moved.current_x, hash_n_times(moved.next_x, 1))>>]

\* Proofer::reply: the Proofer after the call and the triple (x, y, z) returned.
park_reply(p, ch) ==
    LET moved == [p EXCEPT !.last_ch = ch, !.current_x = p.next_x,
                           !.next_x = derive_x(p, ch + 2)]
    IN  [p |-> moved,
         otp |-> <<p.current_x, hash_n_times(p.next_x, 1),
                   calculate_z(moved.current_x, hash_n_times(moved.next_x, 1))>>]

park_verifier_new(pk) == [last_ch |-> 0, last_y |-> pk[1], last_z |-> pk[2]]

\* Verifier::next_challenge: the Verifier after the call and the value returned.
park_next_challenge(v) ==
    [v |-> [v EXCEPT !.last_ch = @ + 1], ch |-> v.last_ch + 1]

\* Faulty variant of park_verify: the commitment z is not checked.
park_verify_ignores_z(v, otp) ==
    IF Sha256(otp[1]) # v.last_y
    THEN [v |-> v, ok |-> FALSE]
    ELSE [v |-> [v EXCEPT !.last_y = otp[2], !.last_z = otp[3]], ok |-> TRUE]

\* Verifier::verify: the Verifier after the call and the value returned.
park_verify(v, otp) ==
    IF Sha256(otp[1]) # v.last_y
    THEN [v |-> v, ok |-> FALSE]
    ELSE IF calculate_z(otp[1], otp[2]) # v.last_z
         THEN [v |-> v, ok |-> FALSE]
         ELSE [v |-> [v EXCEPT !.last_y = otp[2], !.last_z = otp[3]], ok |-> TRUE]

\* Number of rounds of the exchange.
MaxParkRounds == 40

otherThanPark == <<lamport, calc, oracle, status, wotsVars, merkleVars, sdVars>>

(***************************************************************************)
(* The exchange of tests::long_chain, one call at a time.                  *)
(***************************************************************************)
\* tests::long_chain up to the loop: Proofer::new(), Verifier::new(p.pk()).
ParkFresh(pc) ==
    /\ LET p == park_proofer_new(<<"seed", 0>>)
       IN  IF park_pk_panics(p)
           THEN park = <<>> /\ status = "panic"
           ELSE /\ park = [p |-> p, v |-> park_verifier_new(park_pk(p)),
                           pc |-> pc, ch |-> <<>>, otp |-> <<>>,
                           results |-> <<>>, revealed |-> <<>>, committed |-> <<>>]
                /\ status = "ok"
    /\ lamport = <<>>
    /\ oracle = <<>>
    /\ WotsIdle /\ MerkleIdle /\ SdIdle /\ CalcIdle

\* let pwd = p.reply(ch);
ParkAnswer(ch, to) ==
    /\ LET r == park_reply(park.p, ch)
       IN  park' = [park EXCEPT !.p = r.p, !.otp = <<r.otp>>, !.pc = to,
                                !.revealed = Append(@, r.otp[1]),
                                !.committed = Append(@, r.p.next_x)]
    /\ UNCHANGED otherThanPark

InitPark == ParkFresh("challenge")

\* let ch = v.next_challenge();
ParkChallenge ==
    /\ park.pc = "challenge"
    /\ Len(park.results) < MaxParkRounds
    /\ LET r == park_next_challenge(park.v)
       IN  park' = [park EXCEPT !.v = r.v, !.ch = <<r.ch>>, !.pc = "reply"]
    /\ UNCHANGED otherThanPark

\* let pwd = p.reply(ch);
ParkReply == park.pc = "reply" /\ ParkAnswer(park.ch[1], "verify")

\* v.verify(pwd)
ParkVerify ==
    /\ park.pc = "verify"
    /\ LET r == park_verify(park.v, park.otp[1])
       IN  park' = [park EXCEPT !.v = r.v, !.results = Append(@, r.ok),
                                !.pc = "challenge"]
    /\ UNCHANGED otherThanPark

NextPark == ParkChallenge \/ ParkReply \/ ParkVerify

SpecPark == InitPark /\ [][NextPark]_vars

\* Number of reply calls when the challenge values come from anywhere.
MaxParkReplies == 4

\* The challenge values handed to reply then.
ParkAnyChallenges == 0..MaxParkReplies

(***************************************************************************)
(* The Proofer alone, answering whatever challenge value it is handed:     *)
(* reply takes ch from its caller and does not compare it with last_ch.    *)
(***************************************************************************)
InitParkAny == ParkFresh("any")

ParkAnyReply ==
    /\ park.pc = "any"
    /\ Len(park.revealed) < MaxParkReplies
    /\ \E ch \in ParkAnyChallenges : ParkAnswer(ch, "any")

NextParkAny == ParkAnyReply

SpecParkAny == InitParkAny /\ [][NextParkAny]_vars

\* Number of next_challenge, reply and verify calls over a channel that loses replies.
MaxLossyChallenges == 3
MaxLossyReplies == 5
MaxLossyVerifies == 4

(***************************************************************************)
(* The Park Proofer and Verifier over a channel that loses and repeats     *)
(* messages: next_challenge at any time, reply to any challenge value the  *)
(* Verifier has issued so far (a repeated one included), verify of the     *)
(* reply in flight.  A reply that is replaced in flight before verify got  *)
(* it is lost.  replies counts the reply calls, delivered tells whether    *)
(* verify was handed the reply in flight, lost whether some reply was      *)
(* lost, inorder whether every reply answered a challenge value above the  *)
(* one answered before it.                                                 *)
(***************************************************************************)
InitParkLossy ==
    /\ LET p == park_proofer_new(<<"seed", 0>>)
       IN  park = [p |-> p, v |-> park_verifier_new(park_pk(p)),
                   pc |-> "lossy", ch |-> <<>>, otp |-> <<>>,
                   results |-> <<>>, revealed |-> <<>>, committed |-> <<>>,
                   replies |-> 0, delivered |-> FALSE, lost |-> FALSE,
                   inorder |-> TRUE]
    /\ status = "ok"
    /\ lamport = <<>>
    /\ oracle = <<>>
    /\ WotsIdle /\ MerkleIdle /\ SdIdle /\ CalcIdle

\* let ch = v.next_challenge();
LossyChallenge ==
    /\ park.pc = "lossy"
    /\ park.v.last_ch < MaxLossyChallenges
    /\ LET r == park_next_challenge(park.v)
       IN  park' = [park EXCEPT !.v = r.v, !.ch = <<r.ch>>]
    /\ UNCHANGED otherThanPark

\* let pwd = p.reply(ch); for a challenge value that was issued.
LossyReply ==
    /\ park.pc = "lossy"
    /\ park.replies < MaxLossyReplies
    /\ \E ch \in 1..park.v.last_ch :
         LET r == park_reply(park.p, ch)
         IN  park' = [park EXCEPT !.p = r.p, !.otp = <<r.otp>>,
                                  !.replies = @ + 1,
                                  !.delivered = FALSE,
                                  !.lost = @ \/ (park.otp # <<>> /\ ~park.delivered),
                                  !.inorder = @ /\ ch > park.p.last_ch]
    /\ UNCHANGED otherThanPark

\* v.verify(pwd), for the reply in flight.
LossyVerify ==
    /\ park.pc = "lossy"
    /\ park.otp # <<>>
    /\ Len(park.results) < MaxLossyVerifies
    /\ LET r == park_verify(park.v, park.otp[1])
       IN  park' = [park EXCEPT !.v = r.v, !.results = Append(@, r.ok),
                                !.delivered = TRUE]
    /\ UNCHANGED otherThanPark

NextParkLossy == LossyChallenge \/ LossyReply \/ LossyVerify

SpecParkLossy == InitParkLossy /\ [][NextParkLossy]_vars

(***************************************************************************)
(* Properties of the UpdatableMerkleKeypair (Spec, SpecU).                 *)
(***************************************************************************)
KP == merkle.kp

\* The issued signatures that the state remembers.
Tracked == {kept[k] : k \in 1..Len(kept)} \cup {last[k] : k \in 1..Len(last)}

\* sig.verify(msg, pk) for an issued signature.
Verifies(t, pk) == merkle_verify(oracle, t.sig, t.msg, pk)

\* Number of sign calls that have returned a signature.
NumIssued == IF last = <<>> THEN 0 ELSE last[1].nth + 1

\* The Merkle root of the n leaves first .. first+n-1 of the tree of seed, top down.
RECURSIVE MerkleRoot(_, _, _)
MerkleRoot(seed, first, n) ==
    IF n = 1 THEN calculate_leaf(seed, first)
    ELSE hash2(MerkleRoot(seed, first, n \div 2),
               MerkleRoot(seed, first + n \div 2, n \div 2))

\* C1: with caching = height and no server-side caching, and no reconciliation
\* so far, each of the first 2^height sign calls returns a signature (none of
\* them aborts), the i-th of them carries index i, and it verifies against pk.
C1_RoundTrip ==
    (KP.caching = KP.height /\ ~KP.server_side_caching /\ KP.ctr = 0) =>
        /\ status = "panic" => NumIssued >= Pow2(KP.height)
        /\ last # <<>> => /\ last[1].sig.index = last[1].nth
                          /\ Verifies(last[1], KP.pk)

\* The same round trip for trees of height at least one.
RoundTripFromHeightOne == KP.height >= 1 => C1_RoundTrip

\* C2: the leaf index used for signing grows from every signature to every
\* later one, two signatures never carry the same wots_sig.pk_hash, and two
\* signatures of one window (the same ctr) never carry the same index.
C2_NoKeyReuse ==
    kept # <<>> =>
        /\ kept[1].abs < last[1].abs
        /\ kept[1].sig.wots_sig.pk_hash # last[1].sig.wots_sig.pk_hash
        /\ kept[1].ctr = last[1].ctr => kept[1].sig.index # last[1].sig.index

\* Two signatures made at the same index of two different windows.
C2_Witness ==
    /\ kept # <<>>
    /\ kept[1].ctr # last[1].ctr
    /\ kept[1].sig.index = last[1].sig.index
    /\ status = "ok"

C6_ExhaustionAborts ==
    [][(/\ status = "ok"
        /\ KP.ctr_next - KP.ctr = Pow2(KP.height)
        /\ (last' # last \/ status' # status))
          => (status' = "panic" /\ last' = last /\ merkle' = merkle)]_vars

\* C7: ctr <= ctr_next <= ctr + 2^height.
C7_CounterInvariant ==
    /\ KP.ctr <= KP.ctr_next
    /\ KP.ctr_next <= KP.ctr + Pow2(KP.height)

\* C8: pk is the Merkle root of the leaves ctr .. ctr+2^height-1 and pk_next
\* that of the leaves ctr_next .. ctr_next+2^height-1; before the first
\* signature both counters are 0, pk = pk_next and cache = cache_next.
C8_WindowInvariant ==
    /\ KP.pk = MerkleRoot(KP.sk_seed, KP.ctr, Pow2(KP.height))
    /\ KP.pk_next = MerkleRoot(KP.sk_seed, KP.ctr_next, Pow2(KP.height))
    /\ (last = <<>> /\ status = "ok") =>
           /\ KP.ctr = 0 /\ KP.ctr_next = 0
           /\ KP.pk = KP.pk_next /\ KP.cache = KP.cache_next

\* A window that has been slid by a reconciliation and signed in again.
C8_Witness ==
    /\ KP.height >= 2
    /\ KP.ctr > 0 /\ KP.ctr_next > KP.ctr
    /\ KP.pk # KP.pk_next

\* C15: for caching = height and server-side caching, every signature has an
\* empty auth_path, and a signature of the current window with index i has
\* i < 2^height and verifies against cache[i] used as the public key.
C15_ServerSideCaching ==
    (KP.caching = KP.height /\ KP.server_side_caching) =>
        \A t \in Tracked :
            /\ t.sig.auth_path = <<>>
            /\ t.ctr = KP.ctr =>
                   /\ t.sig.index < Pow2(KP.height)
                   /\ Verifies(t, KP.cache[t.sig.index + 1])

\* The last signature of a window that a reconciliation has moved.
C15_Witness ==
    /\ KP.caching = KP.height /\ KP.server_side_caching /\ KP.height >= 1
    /\ KP.ctr > 0 /\ kept # <<>>
    /\ last[1].ctr = KP.ctr /\ kept[1].ctr = KP.ctr
    /\ last[1].sig.index = Pow2(KP.height) - 1
    /\ Verifies(last[1], KP.cache[Pow2(KP.height)])

\* C16: from_sk(seed, h, c, ssc) with c > h aborts and returns no keypair.
C16_CachingValidated == merkle # <<>> => KP.caching <= KP.height

\* What a keypair with c > h does where the subtraction wraps or is not made:
\* it signs like a keypair without cache, and its signatures verify against pk.
BadCachingSigns ==
    (last # <<>> /\ ~KP.server_side_caching /\ last[1].ctr = KP.ctr
                 /\ last[1].sig.index < Pow2(KP.height))
        => Verifies(last[1], KP.pk)

\* The layer with 2^c nodes of the tree over the leaves first .. first+2^h-1.
Layer(seed, first, h, c) ==
    [j \in 1..Pow2(c) |->
        MerkleRoot(seed, first + (j - 1) * Pow2(h - c), Pow2(h - c))]

\* C22: after from_sk and after every sign and reconciliate, cache and
\* cache_next hold exactly 2^c nodes each, the layer of 2^c nodes of their
\* window, for every 0 <= c <= h (for c = 0 the single root node).
C22_CacheShape ==
    /\ Len(KP.cache) = Pow2(KP.caching)
    /\ Len(KP.cache_next) = Pow2(KP.caching)
    /\ KP.cache = Layer(KP.sk_seed, KP.ctr, KP.height, KP.caching)
    /\ KP.cache_next = Layer(KP.sk_seed, KP.ctr_next, KP.height, KP.caching)

\* The cache shape where the code has it: for c >= 1; for c = 0 both are empty.
CacheShapeAboveZero ==
    IF KP.caching >= 1 THEN C22_CacheShape
    ELSE KP.cache = <<>> /\ KP.cache_next = <<>>

\* pk, pk_next and, for c >= 1, cache_next are those of the windows at ctr and ctr_next.
WindowsInStep ==
    /\ KP.pk = MerkleRoot(KP.sk_seed, KP.ctr, Pow2(KP.height))
    /\ KP.pk_next = MerkleRoot(KP.sk_seed, KP.ctr_next, Pow2(KP.height))
    /\ KP.caching >= 1 =>
           KP.cache_next = Layer(KP.sk_seed, KP.ctr_next, KP.height, KP.caching)

\* C28: update() called on its own leaves pk_next the Merkle root of the
\* leaves ctr_next .. ctr_next+2^h-1 and cache_next the cached layer of that
\* window, for c = h as for c < h, so the window invariants hold after any
\* sequence of sign, update and reconciliate.
C28_UpdateAlone == status = "ok" => WindowsInStep

\* The same for c < h only, where update regenerates the whole window.
UpdateAloneBelowHeight == KP.caching < KP.height => WindowsInStep

\* The sibling subtree of leaf index at layer l of the window at ctr, from sk_seed.
Sibling(kp, index, l) ==
    MerkleRoot(kp.sk_seed, kp.ctr + flip_bit(index - (index % Pow2(l)), l), Pow2(l))

\* C29: for h >= 1, 0 <= c < h and no server-side caching, each of the 2^h
\* signatures of a window is issued, carries an auth_path of exactly h nodes,
\* the sibling subtree roots of its leaf, and verifies against pk, before and
\* after a reconciliation.
C29_PartialCaching ==
    (KP.height >= 1 /\ KP.caching < KP.height /\ ~KP.server_side_caching) =>
        /\ status = "panic" => KP.ctr_next - KP.ctr >= Pow2(KP.height)
        /\ \A t \in Tracked :
               (t.ctr = KP.ctr /\ t.sig.index < Pow2(KP.height)) =>
                   /\ Len(t.sig.auth_path) = KP.height
                   /\ \A l \in 0..(KP.height - 1) :
                          t.sig.auth_path[l + 1] = Sibling(KP, t.sig.index, l)
                   /\ Verifies(t, KP.pk)

\* The last signature of a window slid by a reconciliation, with one layer of
\* the path folded from the cache and one recomputed.
C29_Witness ==
    /\ KP.height = 2 /\ KP.caching = 1 /\ ~KP.server_side_caching
    /\ KP.ctr > 0
    /\ last # <<>> /\ last[1].ctr = KP.ctr
    /\ last[1].sig.index = Pow2(KP.height) - 1
    /\ Verifies(last[1], KP.pk)

\* C30: for c = h, the update inside sign (drop cache_next[0], push the leaf
\* ctr_next + 2^h - 1, fold again) leaves the cache_next and pk_next that
\* regenerating all 2^h leaves of the window at ctr_next gives, after any
\* number of sign and reconciliate calls.
C30_IncrementalUpdate ==
    (KP.caching = KP.height /\ last # <<>>) =>
        /\ KP.cache_next = regenerate(KP).cache
        /\ KP.pk_next = regenerate(KP).root

\* Two windows on: signed, reconciled and signed again with c = h >= 2.
C30_Witness ==
    /\ KP.caching = KP.height /\ KP.height >= 2
    /\ KP.ctr > 0 /\ KP.ctr_next > KP.ctr + 1
    /\ last # <<>>
    /\ KP.cache_next # KP.cache

(***************************************************************************)
(* Properties of the SD-MSS Keypair (SpecSd).                              *)
(***************************************************************************)
\* C4: every signature verifies under the keys the keypair holds when the sign
\* call returns: a shallow one against the shallow cache entry at its index, a
\* deep one against deep.pk, whatever remote counters the calls passed.
C4_SdVerifies ==
    (status = "ok" /\ sdlast # <<>>) =>
        LET sig == sdlast[1].sig
        IN  sd_verify(oracle, sig, sdlast[1].msg,
                      keypair.shallow.cache[IF sig.deep THEN 1
                                            ELSE sig.merkle_sig.index + 1],
                      keypair.deep.pk)

\* Both trees used up, both reconciled by one call, both used up again.
C4_Witness ==
    /\ status = "ok" /\ sdlast # <<>>
    /\ sdcalls.n = 2 * (Pow2(S) + Pow2(D))
    /\ sdlast[1].sig.deep
    /\ keypair.shallow.ctr = Pow2(S) /\ keypair.deep.ctr = Pow2(D)
    /\ sdlast[1].sig.merkle_sig.index = Pow2(D) - 1

\* C5: while every call passes the remote counters 0 and 0, the first 2^S
\* signatures have deep = false, the following 2^D have deep = true, and no
\* call aborts before 2^S + 2^D signatures have been made.
C5_Dispatch ==
    sdcalls.zero =>
        /\ sdlast # <<>> => (sdlast[1].sig.deep <=> sdcalls.n > Pow2(S))
        /\ status = "panic" => sdcalls.n >= Pow2(S) + Pow2(D)

C5_Witness ==
    /\ sdcalls.zero /\ sdlast # <<>>
    /\ sdcalls.n = Pow2(S) + Pow2(D)
    /\ sdlast[1].sig.deep

\* The WOTS+ public key hash an SD-MSS signature carries.
SdPkh(t) == t.sig.merkle_sig.wots_sig.pk_hash

\* C13: no two SD-MSS signatures carry the same wots_sig.pk_hash, whatever
\* remote counters the sign calls passed: not within the shallow tree, not
\* within the deep tree, and not between the two trees.
C13_SdNoKeyReuse ==
    sdkept # <<>> => SdPkh(sdkept[1]) # SdPkh(sdlast[1])

\* Two deep signatures with the same index, one from before and one from
\* after a reconciliation of the deep tree.
C13_Witness ==
    /\ sdkept # <<>> /\ status = "ok"
    /\ sdkept[1].sig.deep /\ sdlast[1].sig.deep
    /\ sdkept[1].sig.merkle_sig.index = sdlast[1].sig.merkle_sig.index
    /\ keypair.deep.ctr > 0

\* A shallow and a deep signature with the same index.
SdBothTreesAtOneIndex ==
    /\ sdkept # <<>>
    /\ ~sdkept[1].sig.deep /\ sdlast[1].sig.deep
    /\ sdkept[1].sig.merkle_sig.index = sdlast[1].sig.merkle_sig.index

\* C14: while no reconciliation has moved a window (both ctr are 0), at most
\* 2^S + 2^D signatures are produced and a call aborts only after exactly that
\* many; and no signature has an index outside the window of its tree.
C14_SdExhaustion ==
    /\ (keypair.shallow.ctr = 0 /\ keypair.deep.ctr = 0) =>
           /\ sdcalls.n <= Pow2(S) + Pow2(D)
           /\ status = "panic" => sdcalls.n = Pow2(S) + Pow2(D)
    /\ sdlast # <<>> =>
           sdlast[1].sig.merkle_sig.index < Pow2(IF sdlast[1].sig.deep THEN D ELSE S)

\* The call after the 2^S + 2^D signatures has aborted.
C14_Witness ==
    /\ status = "panic"
    /\ keypair.shallow.ctr = 0 /\ keypair.deep.ctr = 0
    /\ sdcalls.n = Pow2(S) + Pow2(D)
    /\ sdlast[1].sig.deep /\ sdlast[1].sig.merkle_sig.index = Pow2(D) - 1

\* The fields of the keypair that sign() may not touch are the same in both.
SameOutsideNext(before, after) ==
    /\ after.pk = before.pk
    /\ after.ctr = before.ctr
    /\ after.cache = before.cache
    /\ after.sk_seed = before.sk_seed
    /\ after.height = before.height
    /\ after.caching = before.caching
    /\ after.server_side_caching = before.server_side_caching

\* A step of the keypair that returns a signature, and the frame of sign() on it.
SignReturns == status = "ok" /\ last' # <<>> /\ last' # last

SignFrame ==
    /\ KP'.ctr_next = KP.ctr_next + 1
    /\ SameOutsideNext(KP, KP')
    /\ last'[1].sig.index = KP.ctr_next - KP.ctr

\* C35: sign() increases ctr_next by exactly 1 and changes only ctr_next,
\* pk_next and cache_next; the returned index equals ctr_next - ctr as it was
\* before the call, and so lies in [0, 2^h).
C35_SignFrame ==
    [][SignReturns =>
          /\ SignFrame
          /\ last'[1].sig.index >= 0
          /\ last'[1].sig.index < Pow2(KP.height)]_vars

\* The frame of sign() with the upper bound on the index only for the keypairs
\* whose sign aborts at the end of the window: c = h >= 1, or 1 <= c < h
\* without server-side caching.
SignFrameAnyIndex ==
    [][SignReturns =>
          /\ SignFrame
          /\ last'[1].sig.index >= 0
          /\ (KP.caching >= 1 /\ (KP.caching = KP.height \/ ~KP.server_side_caching)) =>
                 last'[1].sig.index < Pow2(KP.height)]_vars

\* What reconciliate() does to the keypair, and that a second call adds nothing.
ReconciliateEffect ==
    /\ KP'.cache = KP.cache_next /\ KP'.ctr = KP.ctr_next /\ KP'.pk = KP.pk_next
    /\ KP'.cache_next = KP.cache_next /\ KP'.ctr_next = KP.ctr_next
    /\ KP'.pk_next = KP.pk_next
    /\ KP'.sk_seed = KP.sk_seed /\ KP'.height = KP.height
    /\ KP'.caching = KP.caching
    /\ KP'.server_side_caching = KP.server_side_caching
    /\ KP'.ctr_next - KP'.ctr = 0
    /\ reconciliate(KP') = KP'
    /\ UNCHANGED <<kept, last, status>>

\* Signatures issued in the window since the latest reconciliation.
UsedInWindow == KP.ctr_next - KP.ctr

\* C36: reconciliate() sets cache, ctr and pk to cache_next, ctr_next and
\* pk_next and changes nothing else; afterwards ctr_next - ctr = 0, and exactly
\* 2^h further signatures can be issued before exhaustion (no sign call aborts
\* before, none returns after), also when the previous window was fully used;
\* a second reconciliate() in a row changes nothing.
C36_ReconciliateEffect ==
    /\ [][Reconciliate => ReconciliateEffect]_vars
    /\ [](status = "panic" => UsedInWindow = Pow2(KP.height))
    /\ [](UsedInWindow <= Pow2(KP.height))

\* The same with the count of 2^h signatures only for the keypairs whose sign
\* aborts at the end of the window and nowhere else.
ReconciliateEffectAbortingSign ==
    /\ [][Reconciliate => ReconciliateEffect]_vars
    /\ []((KP.caching >= 1 /\ (KP.caching = KP.height \/ ~KP.server_side_caching)) =>
            /\ status = "panic" => UsedInWindow = Pow2(KP.height)
            /\ UsedInWindow <= Pow2(KP.height))

\* A window was fully used, reconciled, and fully used again.
ReconciledWindowUsedUp ==
    /\ KP.height >= 1 /\ KP.ctr = Pow2(KP.height)
    /\ UsedInWindow = Pow2(KP.height) /\ status = "panic"

\* What a sign call with the remote counter does to ctr, pk and cache of a
\* tree: before is the tree when the call is made, after when it is over.
Acknowledged(before, after, remote) ==
    IF remote = before.ctr_next
    THEN /\ after.ctr = before.ctr_next
         /\ after.pk = before.pk_next
         /\ after.cache = before.cache_next
    ELSE /\ after.ctr = before.ctr
         /\ after.pk = before.pk
         /\ after.cache = before.cache

\* C31: Keypair::sign reconciles the shallow tree iff remote_shallow_ctr =
\* shallow.ctr_next and the deep tree iff remote_deep_ctr = deep.ctr_next,
\* before the signature is made (its index counts from the new ctr); any other
\* remote value leaves ctr, pk and cache of the tree as they were.
C31_ExactAcknowledgement ==
    [][\A rsc \in RemoteCtrs(keypair.shallow) : \A rdc \in RemoteCtrs(keypair.deep) :
         (\E input \in SdMsgs : SdSign(input, rsc, rdc)) =>
             /\ Acknowledged(keypair.shallow, keypair'.shallow, rsc)
             /\ Acknowledged(keypair.deep, keypair'.deep, rdc)
             /\ status' = "ok" =>
                    LET sig == sdlast'[1].sig
                    IN  sig.merkle_sig.index =
                            IF sig.deep
                            THEN keypair.deep.ctr_next - keypair'.deep.ctr
                            ELSE keypair.shallow.ctr_next - keypair'.shallow.ctr]_vars

\* A call has acknowledged the deep tree only and then signed with it, the
\* shallow tree staying used up.
C31_Witness ==
    /\ status = "ok" /\ sdlast # <<>>
    /\ sdlast[1].sig.deep /\ sdlast[1].sig.merkle_sig.index = 0
    /\ keypair.deep.ctr > 0
    /\ keypair.shallow.ctr = 0 /\ keypair.shallow.ctr_next = Pow2(S)

\* C32: a Keypair::sign call passing the current shallow.ctr_next returns a
\* shallow signature with index 0; while every call does so, every signature is
\* shallow, the deep tree is never consumed and no call aborts.
C32_AcknowledgedStaysShallow ==
    /\ [][\A rdc \in RemoteCtrs(keypair.deep) :
            (\E input \in SdMsgs : SdSign(input, keypair.shallow.ctr_next, rdc)) =>
                /\ status' = "ok"
                /\ ~sdlast'[1].sig.deep
                /\ sdlast'[1].sig.merkle_sig.index = 0
                /\ keypair'.deep.ctr_next = keypair.deep.ctr_next]_vars
    /\ [](~SdIdle /\ sdcalls.acked =>
            /\ status = "ok"
            /\ keypair.deep.ctr_next = 0
            /\ keypair.shallow.ctr_next = sdcalls.n
            /\ sdlast # <<>> => /\ ~sdlast[1].sig.deep
                                /\ sdlast[1].sig.merkle_sig.index = 0
                                /\ sdlast[1].sig.new_shallow_ctr = sdcalls.n)

\* Every one of MaxSdCalls calls, twice the keys of both trees, was acknowledged.
C32_Witness ==
    /\ ~SdIdle /\ sdcalls.acked
    /\ sdcalls.n = MaxSdCalls
    /\ MaxSdCalls > Pow2(S) + Pow2(D)
    /\ ~sdlast[1].sig.deep

\* C33: the over-use branch of Keypair::sign is dead: always shallow.ctr <=
\* shallow.ctr_next <= shallow.ctr + 2^S, no call takes the unreachable!()
\* branch, and a call signs with the deep tree exactly when shallow.ctr_next -
\* shallow.ctr = 2^S after its reconciliations (aborting only once the deep
\* tree is used up as well).
C33_OverUseDead ==
    /\ [](~SdIdle =>
            /\ keypair.shallow.ctr <= keypair.shallow.ctr_next
            /\ shallow_kps_used(keypair) <= Pow2(S)
            /\ sd_branch(keypair) # "unreachable")
    /\ [][\A rsc \in RemoteCtrs(keypair.shallow) : \A rdc \in RemoteCtrs(keypair.deep) :
            (\E input \in SdMsgs : SdSign(input, rsc, rdc)) =>
                LET used == keypair.shallow.ctr_next - keypair'.shallow.ctr
                IN  /\ sd_branch(sd_reconciled(keypair, rsc, rdc)) # "unreachable"
                    /\ used <= Pow2(S)
                    /\ status' = "ok" => (sdlast'[1].sig.deep <=> used = Pow2(S))
                    /\ status' = "panic" =>
                           /\ used = Pow2(S)
                           /\ keypair.deep.ctr_next - keypair'.deep.ctr = Pow2(D)]_vars

\* A deep signature made while the shallow tree, reconciled earlier, is fully
\* used again.
C33_Witness ==
    /\ ~SdIdle /\ status = "ok" /\ sdlast # <<>>
    /\ sdlast[1].sig.deep
    /\ keypair.shallow.ctr > 0
    /\ shallow_kps_used(keypair) = Pow2(S)

\* C34: a Keypair::sign call that returns increments exactly one of
\* shallow.ctr_next and deep.ctr_next by 1, the shallow one iff the returned
\* deep flag is false, and leaves the other alone; new_shallow_ctr and
\* new_deep_ctr of the signature are the two ctr_next after the call; the
\* number of signatures issued is always shallow.ctr_next + deep.ctr_next.
C34_OneCounterPerSignature ==
    /\ [](~SdIdle =>
            /\ sdcalls.n = keypair.shallow.ctr_next + keypair.deep.ctr_next
            /\ sdlast # <<>> =>
                   /\ sdlast[1].sig.new_shallow_ctr = keypair.shallow.ctr_next
                   /\ sdlast[1].sig.new_deep_ctr = keypair.deep.ctr_next)
    /\ [][IF sdcalls'.n = sdcalls.n + 1
          THEN LET sig == sdlast'[1].sig
               IN  /\ keypair'.shallow.ctr_next =
                          keypair.shallow.ctr_next + (IF sig.deep THEN 0 ELSE 1)
                   /\ keypair'.deep.ctr_next =
                          keypair.deep.ctr_next + (IF sig.deep THEN 1 ELSE 0)
                   /\ sig.new_shallow_ctr = keypair'.shallow.ctr_next
                   /\ sig.new_deep_ctr = keypair'.deep.ctr_next
          ELSE /\ keypair'.shallow.ctr_next = keypair.shallow.ctr_next
               /\ keypair'.deep.ctr_next = keypair.deep.ctr_next
               /\ sdlast' = sdlast]_vars

\* Signatures of both kinds have been issued, the latest one deep.
C34_Witness ==
    /\ ~SdIdle /\ sdlast # <<>>
    /\ sdlast[1].sig.deep
    /\ sdlast[1].sig.new_shallow_ctr > Pow2(S)
    /\ sdlast[1].sig.new_deep_ctr > 1
    /\ sdcalls.n = sdlast[1].sig.new_shallow_ctr + sdlast[1].sig.new_deep_ctr

(***************************************************************************)
(* Properties of WOTS+ (SpecWots).                                         *)
(***************************************************************************)
\* C9: verify returns true for the message the unaltered signature was made for.
C9_WotsRoundTrip ==
    (wres # <<>> /\ waltered = "none" /\ wres[1].msg = wmsg) =>
        (~wres[1].panicked /\ wres[1].ok)

C9_Witness ==
    /\ wres # <<>> /\ waltered = "none" /\ wres[1].msg = wmsg
    /\ wres[1].ok
    /\ \E i \in 1..L : cycles_for_msg(oracle, wmsg, wots.pk_hash)[i] \notin {0, W - 1}

\* The alterations that replace one element of the signature.
AlteredFields == {"signature", "pk_hash", "pk_seed"}

\* C10: verify returns false when the message differs from the signed one and
\* has another bound digest, and when an element of signature, pk_hash or
\* pk_seed has been altered.
C10_TamperRejects ==
    (/\ wres # <<>>
     /\ \/ waltered \in AlteredFields
        \/ /\ wres[1].msg # wmsg
           /\ Digest(oracle, wres[1].msg, wsig[1].pk_hash)
                  # Digest(oracle, wmsg, wsig[1].pk_hash))
        => ~wres[1].ok

\* C11: verify returns false (and does not abort) for every signature whose
\* vector has not exactly L elements, shorter or longer.
C11_LengthRejected ==
    (wres # <<>> /\ Len(wsig[1].signature) # L) =>
        (~wres[1].panicked /\ ~wres[1].ok)

\* Of the wrong lengths only the accepting one: a longer vector is never accepted.
LongerRejected ==
    (wres # <<>> /\ Len(wsig[1].signature) > L) => ~wres[1].ok

\* C12: verify returns true or false for every input and never aborts.
C12_VerifyTotal == wres # <<>> => ~wres[1].panicked

\* What the code does reject: an altered field, and a message whose cycles differ.
TamperRejectsOnOtherCycles ==
    (/\ wres # <<>>
     /\ \/ waltered \in AlteredFields
        \/ cycles_for_msg(oracle, wres[1].msg, wsig[1].pk_hash)
               # cycles_for_msg(oracle, wmsg, wsig[1].pk_hash))
        => ~wres[1].ok

(***************************************************************************)
(* Properties of the Lamport OTP (SpecLamport, SpecLamportAny).            *)
(***************************************************************************)
\* The verify calls made so far that returned true.
Accepted == {j \in 1..Len(lamport.results) : lamport.results[j]}

\* C17: a fresh Proofer(n) and Verifier(n, pk) complete n consecutive rounds
\* of next_challenge, reply, verify, and verify returns true in each of them.
C17_FullChain ==
    \A j \in 1..Len(lamport.results) : j <= lamport.p.n => lamport.results[j]

C17_Witness ==
    /\ lamport # <<>>
    /\ lamport.p.n = MaxN
    /\ Len(lamport.results) = lamport.p.n
    /\ Accepted = 1..lamport.p.n

\* C18: in a full run the challenges issued and answered are n, n-1, ..., 1:
\* every answered challenge is in 1..n and reply never returns the raw secret.
C18_ChainDownToOne ==
    /\ \A j \in 1..Len(lamport.challenges) :
         j <= lamport.p.n => lamport.challenges[j] = lamport.p.n - j + 1
    /\ (lamport.otp # <<>> /\ Len(lamport.challenges) <= lamport.p.n)
           => lamport.otp[1] # lamport.p.secret

\* C18 as the code has it: the challenges of a full run are n-1, n-2, ..., 0,
\* each reply is H^ch(secret), and the reply of the n-th round is the raw secret.
C18_ChainDownToZero ==
    /\ \A j \in 1..Len(lamport.challenges) :
         j <= lamport.p.n => lamport.challenges[j] = lamport.p.n - j
    /\ (lamport.otp # <<>> /\ Len(lamport.challenges) <= lamport.p.n)
           => lamport.otp[1] = hash_x_times(lamport.p.secret, lamport.p.last_ch)
    /\ (lamport.pc = "verify" /\ Len(lamport.challenges) = lamport.p.n)
           => lamport.otp[1] = lamport.p.secret

C18_Witness ==
    /\ lamport # <<>>
    /\ lamport.p.n >= 2
    /\ Accepted = 1..lamport.p.n
    /\ lamport.challenges[lamport.p.n] = 0
    /\ lamport.v.last_otp = lamport.p.secret

\* C19: the values returned by next_challenge strictly decrease, and of the
\* verify calls on one Verifier(n, pk), fed with replies of the Proofer to any
\* challenge values in any order, at most n return true.
C19_Monotonic ==
    /\ \A i, j \in 1..Len(lamport.challenges) :
         i < j => lamport.challenges[i] > lamport.challenges[j]
    /\ Cardinality(Accepted) <= lamport.p.n

C19_Witness ==
    /\ lamport # <<>>
    /\ lamport.pc = "any"
    /\ Len(lamport.challenges) >= 2
    /\ Cardinality(Accepted) = lamport.p.n
    /\ Len(lamport.results) > lamport.p.n + 1
    /\ ~lamport.results[1]

\* A step that is a verify call, and the value the call returned.
LamportVerifies == Len(lamport'.results) = Len(lamport.results) + 1
LamportVerdict == lamport'.results[Len(lamport'.results)]

\* The number d with last_otp = H^d(secret): n minus the accepted passwords.
LamportDepth == lamport.p.n - Cardinality(Accepted)

\* The passwords accepted so far: H^(n-1)(secret) down to H^d(secret).
LamportAccepted ==
    {hash_x_times(lamport.p.secret, k) : k \in LamportDepth..(lamport.p.n - 1)}

\* C37: verify(otp) returns true iff H(otp) = last_otp; on acceptance last_otp
\* becomes otp, on rejection the Verifier is unchanged; a password that was
\* accepted is rejected when it is submitted again.
C37_VerifyEffect ==
    /\ [][LamportVerifies =>
            LET otp == lamport.otp[1]
            IN  /\ LamportVerdict <=> Sha256(otp) = lamport.v.last_otp
                /\ IF LamportVerdict
                   THEN lamport'.v = [lamport.v EXCEPT !.last_otp = otp]
                   ELSE lamport'.v = lamport.v
                /\ otp \in LamportAccepted => ~LamportVerdict]_vars
    /\ [](lamport # <<>> =>
            /\ lamport.v.last_otp = hash_x_times(lamport.p.secret, LamportDepth)
            /\ \A otp \in LamportAccepted : ~lamport_verify(lamport.v, otp).ok)

\* The password accepted by the call before last is still the one in flight
\* and the latest call has rejected it; an earlier accepted one exists too.
C37_Witness ==
    /\ lamport # <<>>
    /\ Len(lamport.results) >= 3
    /\ lamport.results[Len(lamport.results) - 1]
    /\ ~lamport.results[Len(lamport.results)]
    /\ lamport.otp[1] = lamport.v.last_otp
    /\ Cardinality(LamportAccepted) >= 2

\* What a verify call does in terms of the chain, d being the number with
\* last_otp = H^d(secret): it accepts H^(d-1)(secret) and nothing else,
\* whatever last_ch is; the reply to the latest challenge is rejected when
\* that challenge is at least lowest and below d-1 (one was skipped); above
\* the end of the chain only the reply to challenge d-1 is accepted.
AcceptsNextPreimage(lowest) ==
    LET otp == lamport.otp[1]
        d   == LamportDepth
    IN  /\ LamportVerdict <=>
               (d >= 1 /\ otp = hash_x_times(lamport.p.secret, d - 1))
        /\ \A ch \in AnyChallenges :
               lamport_verify([lamport.v EXCEPT !.last_ch = ch], otp).ok
                   = LamportVerdict
        /\ (/\ lamport.p.last_ch = lamport.v.last_ch
            /\ lamport.v.last_ch >= lowest
            /\ lamport.v.last_ch < d - 1) => ~LamportVerdict
        /\ (LamportVerdict /\ d >= 2) => lamport.p.last_ch = d - 1

\* C39: what verify accepts does not depend on last_ch: it is exactly
\* H^(d-1)(secret), where last_otp = H^d(secret).  After two next_challenge
\* calls without an accepted verify in between, the reply to the newer
\* challenge is rejected, and the Verifier accepts again only the reply to the
\* challenge value that was skipped.
C39_AcceptsNextPreimageOnly ==
    [][LamportVerifies => AcceptsNextPreimage(-MaxChallenges)]_vars

\* C39 as the code has it: the reply to the newer challenge is rejected when
\* that challenge is 0 or above, that is among the first n of the Verifier.
\* reply returns the secret for every challenge value of 0 and below, so once
\* last_otp = H(secret) the reply to a challenge below 0, issued after the one
\* of value 0 was skipped, is accepted.
C39_WithinChain ==
    [][LamportVerifies => AcceptsNextPreimage(0)]_vars

\* Two challenges, n-1 and n-2, were issued; a reply was rejected, the reply
\* to n-1 was accepted, and the Verifier's counter is at n-2.
C39_Witness ==
    /\ lamport # <<>>
    /\ lamport.p.n >= 3
    /\ lamport.challenges = <<lamport.p.n - 1, lamport.p.n - 2>>
    /\ lamport.results = <<FALSE, TRUE>>
    /\ lamport.p.last_ch = lamport.p.n - 1
    /\ lamport.v.last_ch = lamport.p.n - 2
    /\ lamport.v.last_otp = hash_x_times(lamport.p.secret, lamport.p.n - 1)

(***************************************************************************)
(* Properties of the Park OTP (SpecPark).                                  *)
(***************************************************************************)
\* x(i) of the Proofer in the exchange.
ParkX(i) == derive_x(park.p, i)

\* C20: every one of k consecutive rounds of next_challenge, reply, verify on
\* a fresh Proofer and Verifier(pk) returns true, and after the j-th round the
\* Verifier holds last_y = H(x(j+1)) and last_z = H(x(j+1) || H(x(j+2))).
C20_LongChain ==
    /\ \A j \in 1..Len(park.results) : park.results[j]
    /\ park.pc = "challenge" =>
         LET j == Len(park.results)
         IN  /\ park.v.last_y = Sha256(ParkX(j + 1))
             /\ park.v.last_z = Sha256(<<"cat", ParkX(j + 1), Sha256(ParkX(j + 2))>>)

C20_Witness ==
    /\ park # <<>>
    /\ park.pc = "challenge"
    /\ Len(park.results) = MaxParkRounds
    /\ park.results[MaxParkRounds]
    /\ park.v.last_ch = MaxParkRounds

\* C21: the chain value a reply newly commits to (x_next) differs from every
\* chain value revealed or committed to by an earlier reply, and no chain
\* value is revealed by two replies, for every sequence of reply(ch) calls.
C21_FreshCommitment ==
    \A i, j \in 1..Len(park.revealed) :
        i < j => /\ park.committed[j] # park.committed[i]
                 /\ park.committed[j] # park.revealed[i]
                 /\ park.revealed[j] # park.revealed[i]

\* The same for the replies to the challenges 1, 2, 3, ... of next_challenge,
\* where the j-th reply reveals x(j) and newly commits to x(j+2).
FreshInOrder ==
    /\ C21_FreshCommitment
    /\ \A j \in 1..Len(park.revealed) :
         /\ park.revealed[j] = ParkX(j)
         /\ park.committed[j] = ParkX(j + 2)

\* A step that is a verify call, the value it returned, and a step that is a
\* next_challenge call.
ParkVerifies == Len(park'.results) = Len(park.results) + 1
ParkVerdict == park'.results[Len(park'.results)]
ParkChallenges == park'.ch # park.ch

\* The two checks of verify on the triple in flight.
ParkCheckX == Sha256(park.otp[1][1]) = park.v.last_y
ParkCheckZ == Sha256(<<"cat", park.otp[1][1], park.otp[1][2]>>) = park.v.last_z

\* C38: verify((x, y, z)) returns true iff H(x) = last_y and H(x || y) =
\* last_z; on acceptance last_y and last_z become y and z; on rejection by
\* either check they are unchanged; verify never changes last_ch;
\* next_challenge() increases last_ch by 1 and returns the new value, whether
\* or not the previous reply was verified.
C38_ParkVerifyEffect ==
    [][/\ ParkVerifies =>
            /\ ParkVerdict <=> (ParkCheckX /\ ParkCheckZ)
            /\ IF ParkVerdict
               THEN /\ park'.v.last_y = park.otp[1][2]
                    /\ park'.v.last_z = park.otp[1][3]
               ELSE /\ park'.v.last_y = park.v.last_y
                    /\ park'.v.last_z = park.v.last_z
            /\ park'.v.last_ch = park.v.last_ch
       /\ ParkChallenges =>
            /\ park'.v.last_ch = park.v.last_ch + 1
            /\ park'.ch = <<park.v.last_ch + 1>>
            /\ park'.v.last_y = park.v.last_y
            /\ park'.v.last_z = park.v.last_z]_vars

\* verify has accepted replies and has then rejected the triple in flight by
\* the second check alone; a reply was lost, and more challenges were issued
\* than replies accepted.
C38_Witness ==
    /\ park # <<>> /\ park.pc = "lossy"
    /\ park.lost /\ park.delivered
    /\ \E j \in 1..Len(park.results) : park.results[j]
    /\ ~park.results[Len(park.results)]
    /\ ParkCheckX /\ ~ParkCheckZ
    /\ park.v.last_ch > Cardinality({j \in 1..Len(park.results) : park.results[j]})

\* The verify calls so far that returned true.
ParkAccepted == {j \in 1..Len(park.results) : park.results[j]}

\* What a verify call that accepts or follows a loss has to satisfy: the k-th
\* reply is accepted only after k-1 accepted ones, and once a reply was lost
\* every reply is rejected.
VerifiedInOrder ==
    ParkVerifies =>
        /\ ParkVerdict => Cardinality(ParkAccepted) = park.replies - 1
        /\ park.lost => ~ParkVerdict

\* C40: the Verifier accepts the k-th reply of a Proofer only after it has
\* accepted the replies 1..k-1, and once one reply is never delivered every
\* later reply of that Proofer is rejected: the pair never resynchronises.
C40_NeverResynchronises == [][VerifiedInOrder]_vars

\* The same while every reply answers a challenge value above the one
\* answered before it, as when each challenge of next_challenge is answered
\* at most once.
NeverResynchronisesInOrder == [][park.inorder' => VerifiedInOrder]_vars

\* Replies were accepted, a reply was lost, later ones were rejected, all in
\* the order of the challenges.
LostInOrder ==
    /\ park # <<>> /\ park.pc = "lossy"
    /\ park.inorder /\ park.lost /\ park.delivered
    /\ park.replies = 3
    /\ park.results = <<TRUE, FALSE>>

\* The pair after it has resynchronised: a reply is lost, two challenge
\* values are answered again, and the next reply is accepted.
Resynchronised ==
    /\ park # <<>> /\ park.pc = "lossy"
    /\ park.lost /\ park.delivered
    /\ park.results[Len(park.results)]

(***************************************************************************)
(* Properties of chain, base_w, the checksum and the root (SpecCalc).      *)
(***************************************************************************)
Called(fn) == calc.fn = fn /\ calc.out # <<>>

\* The number that the symbols are in base W, first symbol most significant.
RECURSIVE SymbolsValue(_)
SymbolsValue(d) ==
    IF d = <<>> THEN 0 ELSE SymbolsValue(SubSeq(d, 1, Len(d) - 1)) * W + d[Len(d)]

\* The number that the bytes are, big-endian.
RECURSIVE BytesValue(_)
BytesValue(bs) ==
    IF bs = <<>> THEN 0 ELSE BytesValue(SubSeq(bs, 1, Len(bs) - 1)) * 256 + bs[Len(bs)]

\* C23: chain(chain(input, a, k, 0, s), b, k, a, s) = chain(input, a+b, k, 0, s)
\* for a + b <= W-1, and chain(x, 0, k, start, s) = x.
C23_ChainComposition ==
    Called("chain") =>
        /\ calc.out[1].end1 = calc.out[1].end2
        /\ calc.out[1].end3 = calc.out[1].end2
        /\ calc.out[1].none = calc.input

\* The call of tests::hash_chain_test: 3 rounds, then 7, against 10.
C23_Witness ==
    /\ Called("chain")
    /\ calc.a = 3 /\ calc.b = 7
    /\ calc.out[1].end1 = calc.out[1].end2
    /\ calc.out[1].end1 # calc.out[1].mid
    /\ calc.out[1].mid # calc.input

\* C24: for every byte b, the ceil(8/LOG2_W) symbols of base_w([b], ...) are
\* in 0..W-1 and are b in base W, first symbol most significant.
C24_BaseWOneByte ==
    (Called("base_w") /\ Len(calc.bytes) = 1) =>
        /\ Len(calc.out[1]) = symbols_per_byte
        /\ \A i \in 1..Len(calc.out[1]) : calc.out[1][i] \in 0..(W - 1)
        /\ SymbolsValue(calc.out[1]) = calc.bytes[1]

C24_Witness ==
    /\ Called("base_w")
    /\ calc.bytes = <<165>>
    /\ calc.out[1] = <<10, 5>>

\* The root of a list of 2^k nodes, top down: the hash of the roots of its halves.
RECURSIVE RootOf(_)
RootOf(ls) ==
    IF Len(ls) = 1 THEN ls[1]
    ELSE hash2(RootOf(SubSeq(ls, 1, Len(ls) \div 2)),
               RootOf(SubSeq(ls, Len(ls) \div 2 + 1, Len(ls))))

\* C25: calculate_root_and_cache returns as root the result of hashing
\* adjacent pairs, left to right, until one node remains (for four leaves
\* hash2(hash2(l0, l1), hash2(l2, l3))), and aborts when the number of
\* leaves is not a power of two.
C25_RootComputation ==
    Called("root") =>
        LET ls == calc.leaves
        IN  /\ calc.out[1].panicked <=> ~(\E k \in 0..MaxLeaves : Len(ls) = Pow2(k))
            /\ ~calc.out[1].panicked => calc.out[1].root = RootOf(ls)
            /\ Len(ls) = 4 =>
                   calc.out[1].root = hash2(hash2(ls[1], ls[2]), hash2(ls[3], ls[4]))

C25_Witness ==
    /\ Called("root")
    /\ calc.leaves = <<<<"leaf", 42>>, <<"leaf", 31>>, <<"leaf", 31>>, <<"leaf", 42>>>>
    /\ ~calc.out[1].panicked
    /\ calc.out[1].root = hash2(hash2(<<"leaf", 42>>, <<"leaf", 31>>),
                                hash2(<<"leaf", 31>>, <<"leaf", 42>>))

\* C26: for every string of k >= 1 bytes, base_w(bytes, 2k) read with the
\* first symbol most significant is the big-endian value of bytes.
C26_BaseWBytes ==
    Called("base_w") => SymbolsValue(calc.out[1]) = BytesValue(calc.bytes)

\* What base_w returns for two and more bytes: the first byte has no part in it.
FirstByteIgnored ==
    (Called("base_w") /\ Len(calc.bytes) >= 2) =>
        calc.out[1] = base_w([calc.bytes EXCEPT ![1] = 0], calc.len)

\* C27: the L2 checksum symbols are csum = sum of (W-1-d_i) in base W, so
\* that distinct csum values in 0..L1*(W-1) give distinct symbols.
C27_ChecksumEncoding ==
    Called("checksum") =>
        LET csum == SumSeq([i \in 1..L1 |-> W - 1 - calc.symbols[i]])
        IN  /\ Len(calc.out[1]) = L2
            /\ SymbolsValue(calc.out[1]) = csum
            /\ \A other \in 0..(L1 * (W - 1)) :
                   other # csum => csum_symbols(other) # calc.out[1]

\* What the checksum symbols are: only the low LOG2_W bits of csum, in the middle.
ChecksumLowBitsOnly ==
    Called("checksum") =>
        LET csum == SumSeq([i \in 1..L1 |-> W - 1 - calc.symbols[i]])
        IN  calc.out[1] = <<0, csum % W, 0>>

====
